---------------------------- MODULE Spec2Model ----------------------------
(***************************************************************************)
(* Postr: the Twitter platform adapter (postr/twitter_postr.py), its       *)
(* hashtag stream listener, and the tkinter front-end (postr/main2.py).    *)
(*                                                                         *)
(* The vendor client (tweepy's API object, Cursor and Stream) is the       *)
(* environment.  Every vendor call takes an outcome o: "ok" or the error   *)
(* the vendor raises.  Strings that the code inspects or concatenates are  *)
(* sequences of one-character strings.                                     *)
(***************************************************************************)
EXTENDS Integers, Sequences, FiniteSets, TLC

VARIABLES
    api,           \* the vendor-side state behind self.api
    last,          \* outcome of the most recent Adapter operation
    text_box,      \* GUI: content of the comment ScrolledText
    filepath,      \* GUI: StringVar filepath
    io_error,      \* GUI: StringVar io_error
    curselection,  \* GUI: indices selected in api_box
    gui_calls,     \* GUI: what the post action of the latest step called
    session,       \* stream session: "none", "listening" or "stopped"
    caller,        \* where the caller of stream_tweets is
    file,          \* content of the stream's destination file
    file0,         \* that content when the current session was opened
    received,      \* what the vendor delivered to on_data in this session
    callback_ret,  \* what the most recent listener callback returned
    fl             \* frame of a running get_user_followers call

vars == <<api, last, text_box, filepath, io_error, curselection, gui_calls,
          session, caller, file, file0, received, callback_ret, fl>>

guiVars == <<text_box, filepath, io_error, curselection, gui_calls>>
streamVars == <<session, caller, file, file0, received, callback_ret>>

-----------------------------------------------------------------------------
(* Bounds of the exploration *)

MaxIds == 3        \* the vendor assigns post ids 1..MaxIds
MaxCursor == 2     \* cursor length of an atomic get_user_followers call
MaxText == 1       \* characters the user types into the text box
MaxMsgs == 3       \* messages delivered to one listener
MaxFile == 2       \* a session is opened while the file is shorter than this
MaxK == 202        \* items a follower cursor yields in the stepwise loop

-----------------------------------------------------------------------------
(* Errors and their handlers *)

\* What a vendor call can raise: a library error (an Exception) and an
\* interrupt (a BaseException that is no Exception).
VendorErrors == {"TweepError", "KeyboardInterrupt"}

Outcomes == {"ok"} \cup VendorErrors

\* Python's class test of an except clause: BaseException catches everything,
\* Exception everything but the interrupts.
Catches(handler, e) ==
    IF handler = "BaseException" THEN TRUE
    ELSE e \in {"TweepError", "IndexError", "AttributeError"}

-----------------------------------------------------------------------------
(* The vendor: tweepy.API calls as made by the Adapter *)

Post(id, fav, rt) == [id |-> id, favorite_count |-> fav, retweet_count |-> rt]

Ids(a) == {a.posts[k].id : k \in 1..Len(a.posts)}

Remove(s, id) == SelectSeq(s, LAMBDA p : p.id # id)

\* A call on a post id the vendor does not hold fails whatever else happens.
OutcomeOn(a, id, o) == IF o = "ok" /\ id \notin Ids(a) THEN "TweepError" ELSE o

\* self.api.update_status(status=text)
update_status(a, text, o) ==
    IF o # "ok" THEN [raised |-> o, api |-> a]
    ELSE [raised |-> "none",
          api |-> [a EXCEPT !.posts = <<Post(a.nextId, 0, 0)>> \o @,
                            !.nextId = @ + 1]]

\* self.api.update_with_media(filename=url, status=text)
update_with_media(a, url, text, o) ==
    IF o # "ok" THEN [raised |-> o, api |-> a]
    ELSE [raised |-> "none",
          api |-> [a EXCEPT !.posts = <<Post(a.nextId, 0, 0)>> \o @,
                            !.nextId = @ + 1]]

\* self.api.destroy_status(post_id)
destroy_status(a, post_id, o) ==
    LET e == OutcomeOn(a, post_id, o) IN
    IF e # "ok" THEN [raised |-> e, api |-> a]
    ELSE [raised |-> "none", api |-> [a EXCEPT !.posts = Remove(@, post_id)]]

\* self.api.update_profile(description=message)
update_profile_description(a, message, o) ==
    IF o # "ok" THEN [raised |-> o, api |-> a]
    ELSE [raised |-> "none", api |-> [a EXCEPT !.me.description = message]]

\* self.api.update_profile(name=new_name).  The display name is not held in
\* the vendor state: no Adapter operation reads it back.
update_profile_name(a, new_name, o) ==
    IF o # "ok" THEN [raised |-> o, api |-> a]
    ELSE [raised |-> "none", api |-> a]

\* self.api.me()
me(a, o) ==
    IF o # "ok" THEN [raised |-> o, val |-> a.me]
    ELSE [raised |-> "none", val |-> a.me]

\* self.api.user_timeline(id=..., count=1): at most one post, the newest
user_timeline(a, count, o) ==
    IF o # "ok" THEN [raised |-> o, val |-> <<>>]
    ELSE [raised |-> "none",
          val |-> SubSeq(a.posts, 1, IF Len(a.posts) < count THEN Len(a.posts) ELSE count)]

\* self.api.get_status(tweet_id)
get_status(a, tweet_id, o) ==
    LET e == OutcomeOn(a, tweet_id, o) IN
    IF e # "ok" THEN [raised |-> e, val |-> Post(0, 0, 0)]
    ELSE [raised |-> "none",
          val |-> CHOOSE p \in {a.posts[k] : k \in 1..Len(a.posts)} : p.id = tweet_id]

-----------------------------------------------------------------------------
(* Outcome of an Adapter operation *)

\* op returned normally.  kind says which of b, n, s, l holds the value.
Returned(op, kind, b, n, s, l, calls, printed, a) ==
    [op |-> op, raised |-> "none", kind |-> kind, b |-> b, n |-> n, s |-> s,
     l |-> l, calls |-> calls, printed |-> printed, sleeps |-> 0, api |-> a]

\* op let exception e escape to its caller.
Raised(op, e, calls, a) ==
    [op |-> op, raised |-> e, kind |-> "none", b |-> FALSE, n |-> 0, s |-> "",
     l |-> <<>>, calls |-> calls, printed |-> "", sleeps |-> 0, api |-> a]

RetBool(op, b, calls, printed, a) == Returned(op, "bool", b, 0, "", <<>>, calls, printed, a)
RetInt(op, n, calls, a) == Returned(op, "int", FALSE, n, "", <<>>, calls, "", a)
RetStr(op, s, calls, a) == Returned(op, "str", FALSE, 0, s, <<>>, calls, "", a)
RetNone(op, calls, a) == Returned(op, "none", FALSE, 0, "", <<>>, calls, "", a)

\* A call made inside another: its vendor calls come after those already made.
After(calls, r) == [r EXCEPT !.calls = calls \o @]
As(op, r) == [r EXCEPT !.op = op]

\* What callers see of an outcome: everything but the vendor state.
Outcome(r) ==
    [op |-> r.op, raised |-> r.raised, kind |-> r.kind, b |-> r.b, n |-> r.n,
     s |-> r.s, l |-> r.l, calls |-> r.calls, printed |-> r.printed,
     sleeps |-> r.sleeps]

NoOutcome == Outcome(RetNone("none", <<>>, <<>>))

-----------------------------------------------------------------------------
(* Twitter: the write operations *)

\* post_text with the handler written except Exception.
Twitter_post_text_catches_Exception(a, text, o) ==
    LET r == update_status(a, text, o) IN
    IF r.raised = "none"
    THEN RetBool("post_text", TRUE, <<"update_status">>, "", r.api)
    ELSE IF Catches("Exception", r.raised)
    THEN RetBool("post_text", FALSE, <<"update_status">>, r.raised, r.api)
    ELSE Raised("post_text", r.raised, <<"update_status">>, r.api)

\* Twitter.post_text
Twitter_post_text(a, text, o) ==
    LET r == update_status(a, text, o) IN
    IF r.raised = "none"
    THEN RetBool("post_text", TRUE, <<"update_status">>, "", r.api)
    ELSE IF Catches("BaseException", r.raised)
    THEN RetBool("post_text", FALSE, <<"update_status">>, r.raised, r.api)
    ELSE Raised("post_text", r.raised, <<"update_status">>, r.api)

\* post_video implemented as an upload, like post_photo.
Twitter_post_video_uploads(a, url, text) ==
    LET r == update_with_media(a, url, text, "ok") IN
    RetBool("post_video", TRUE, <<"update_with_media">>, "", r.api)

\* Twitter.post_video
Twitter_post_video(a, url, text) ==
    RetBool("post_video", FALSE, <<>>, "", a)

\* Twitter.post_photo
Twitter_post_photo(a, url, text, o) ==
    LET r == update_with_media(a, url, text, o) IN
    IF r.raised = "none"
    THEN RetBool("post_photo", TRUE, <<"update_with_media">>, "", r.api)
    ELSE IF Catches("BaseException", r.raised)
    THEN RetBool("post_photo", FALSE, <<"update_with_media">>, r.raised, r.api)
    ELSE Raised("post_photo", r.raised, <<"update_with_media">>, r.api)

\* Twitter.remove_post
Twitter_remove_post(a, post_id, o) ==
    LET r == destroy_status(a, post_id, o) IN
    IF r.raised = "none"
    THEN RetBool("remove_post", TRUE, <<"destroy_status">>, "", r.api)
    ELSE IF Catches("BaseException", r.raised)
    THEN RetBool("remove_post", FALSE, <<"destroy_status">>, r.raised, r.api)
    ELSE Raised("remove_post", r.raised, <<"destroy_status">>, r.api)

\* Twitter.update_bio
Twitter_update_bio(a, message, o) ==
    LET r == update_profile_description(a, message, o) IN
    IF r.raised = "none" THEN RetNone("update_bio", <<"update_profile">>, r.api)
    ELSE Raised("update_bio", r.raised, <<"update_profile">>, r.api)

\* Twitter.update_name
Twitter_update_name(a, new_name, o) ==
    LET r == update_profile_name(a, new_name, o) IN
    IF r.raised = "none" THEN RetNone("update_name", <<"update_profile">>, r.api)
    ELSE Raised("update_name", r.raised, <<"update_profile">>, r.api)

-----------------------------------------------------------------------------
(* Twitter.get_user_followers: the pagination loop *)

\* if i >= 100: the throttle's threshold, and time.sleep(1)
RateLimit == 100
SleepSeconds == 1

\* The vendor's follower list of a target: the handle at position k.  Handles
\* repeat (the list is not deduplicated).
FollowerAt(seed, k) == (seed * k) % 3

\* my_followers = []; i = 0
FollowersEnter ==
    [pc |-> "loop", my_followers |-> <<>>, i |-> 0, sleeps |-> 0, slept |-> 0,
     raised |-> "none", ret |-> <<>>]

\* The loop body with the throttle's test written i > 100.
FollowersItem_off_by_one(f, screen_name) ==
    LET mf == Append(f.my_followers, screen_name)
        i1 == f.i + 1
    IN  IF i1 > RateLimit
        THEN [f EXCEPT !.my_followers = mf, !.i = 0, !.sleeps = @ + 1,
                       !.slept = @ + SleepSeconds]
        ELSE [f EXCEPT !.my_followers = mf, !.i = i1]

\* One pass of the loop body, for the item the cursor yielded.
FollowersItem(f, screen_name) ==
    LET mf == Append(f.my_followers, screen_name)
        i1 == f.i + 1
    IN  IF i1 >= RateLimit
        THEN [f EXCEPT !.my_followers = mf, !.i = 0, !.sleeps = @ + 1,
                       !.slept = @ + SleepSeconds]
        ELSE [f EXCEPT !.my_followers = mf, !.i = i1]

\* The cursor is exhausted: return my_followers
FollowersReturn(f) == [f EXCEPT !.pc = "returned", !.ret = f.my_followers]

\* The loop guarded by a handler that returns what was gathered so far.
FollowersRaise_returns_partial(f, e) == [f EXCEPT !.pc = "returned", !.ret = f.my_followers]

\* The cursor raises inside the for statement; nothing catches it.
FollowersRaise(f, e) == [f EXCEPT !.pc = "raised", !.raised = e]

\* The whole call on a cursor of K items that raises e once failAfter items
\* were yielded (failAfter = -1: it never raises).
RECURSIVE FollowersRun(_, _, _, _, _)
FollowersRun(f, seed, K, failAfter, e) ==
    LET j == Len(f.my_followers) IN
    IF failAfter = j THEN FollowersRaise(f, e)
    ELSE IF j = K THEN FollowersReturn(f)
    ELSE FollowersRun(FollowersItem(f, FollowerAt(seed, j + 1)), seed, K, failAfter, e)

Twitter_get_user_followers(a, seed, K, failAfter, e) ==
    LET f == FollowersRun(FollowersEnter, seed, K, failAfter, e) IN
    IF f.pc = "raised"
    THEN Raised("get_user_followers", f.raised, <<"followers">>, a)
    ELSE [Returned("get_user_followers", "list", FALSE, 0, "", f.ret,
                   <<"followers">>, "", a) EXCEPT !.sleeps = f.sleeps]

-----------------------------------------------------------------------------
(* Twitter: the read operations *)

\* ApiInterface.user_info is not part of the sources at hand: the profile of
\* the authenticated identity, fetched from the vendor.
user_info(a, o) ==
    LET r == me(a, o) IN
    IF r.raised # "none" THEN Raised("user_info", r.raised, <<"me">>, a)
    ELSE Returned("user_info", "dict", FALSE, r.val.id, r.val.screen_name, <<>>,
                  <<"me">>, "", a)

\* Twitter.username
Twitter_username(a, o) ==
    LET r == user_info(a, o) IN
    IF r.raised # "none" THEN As("username", r)
    ELSE RetStr("username", r.s, r.calls, a)

\* Twitter.id
Twitter_id(a, o) ==
    LET r == me(a, o) IN
    IF r.raised # "none" THEN Raised("id", r.raised, <<"me">>, a)
    ELSE RetInt("id", r.val.id, <<"me">>, a)

\* Twitter.bio
Twitter_bio(a, o) ==
    LET r == me(a, o) IN
    IF r.raised # "none" THEN Raised("bio", r.raised, <<"me">>, a)
    ELSE RetStr("bio", r.val.description, <<"me">>, a)

\* Twitter.get_user_likes
Twitter_get_user_likes(a) == RetInt("get_user_likes", -1, <<>>, a)

\* Twitter.last_tweet: the Status returned is held by its id, in n
Twitter_last_tweet(a, o1, o2) ==
    LET u == Twitter_id(a, o1) IN
    IF u.raised # "none" THEN As("last_tweet", u)
    ELSE LET t == user_timeline(a, 1, o2)
             calls == u.calls \o <<"user_timeline">>
         IN  IF t.raised # "none" THEN Raised("last_tweet", t.raised, calls, a)
             ELSE IF Len(t.val) = 0 THEN Raised("last_tweet", "IndexError", calls, a)
             ELSE Returned("last_tweet", "status", FALSE, t.val[1].id, "", <<>>,
                           calls, "", a)

\* Twitter.favorites_on
Twitter_favorites_on(a, tweet_id, o) ==
    LET r == get_status(a, tweet_id, o) IN
    IF r.raised # "none" THEN Raised("favorites_on", r.raised, <<"get_status">>, a)
    ELSE RetInt("favorites_on", r.val.favorite_count, <<"get_status">>, a)

\* retweets_on with the swallowing handler of the write operations.
Twitter_retweets_on_swallows(a, tweet_id, o) ==
    LET r == get_status(a, tweet_id, o) IN
    IF r.raised # "none" THEN RetInt("retweets_on", -1, <<"get_status">>, a)
    ELSE RetInt("retweets_on", r.val.retweet_count, <<"get_status">>, a)

\* Twitter.retweets_on
Twitter_retweets_on(a, tweet_id, o) ==
    LET r == get_status(a, tweet_id, o) IN
    IF r.raised # "none" THEN Raised("retweets_on", r.raised, <<"get_status">>, a)
    ELSE RetInt("retweets_on", r.val.retweet_count, <<"get_status">>, a)

\* latest_favorites pasted from latest_retweets with the call left as it was.
Twitter_latest_favorites_of_retweets(a, o1, o2, o3) ==
    LET t == Twitter_last_tweet(a, o1, o2) IN
    IF t.raised # "none" THEN As("latest_favorites", t)
    ELSE As("latest_favorites", After(t.calls, Twitter_retweets_on(a, t.n, o3)))

\* Twitter.latest_favorites
Twitter_latest_favorites(a, o1, o2, o3) ==
    LET t == Twitter_last_tweet(a, o1, o2) IN
    IF t.raised # "none" THEN As("latest_favorites", t)
    ELSE As("latest_favorites", After(t.calls, Twitter_favorites_on(a, t.n, o3)))

\* Twitter.latest_retweets
Twitter_latest_retweets(a, o1, o2, o3) ==
    LET t == Twitter_last_tweet(a, o1, o2) IN
    IF t.raised # "none" THEN As("latest_retweets", t)
    ELSE As("latest_retweets", After(t.calls, Twitter_retweets_on(a, t.n, o3)))

-----------------------------------------------------------------------------
(* StdOutListener: the stream's callbacks *)

\* What json.loads makes of a raw message: a decode error, or the value's
\* type and, for a dict, whether it has the key 'text', that value's type
\* and, for a str, its characters.
Decoded(t, has_text, text_t, text) ==
    [error |-> "none", t |-> t, has_text |-> has_text, text_t |-> text_t, text |-> text]

DecodeError == [error |-> "JSONDecodeError", t |-> "none", has_text |-> FALSE,
                text_t |-> "none", text |-> <<>>]

\* The raw messages delivered.
RawMessages ==
    { "{\"text\": \"ab\"}",
      "{\"id\": 7, \"text\": \"c\"}",
      "{\"id\": 7}",
      "{\"text\": 5}",
      "[\"text\"]",
      "{\"text\": \"ab" }

\* json.loads(raw_data)
json_loads(raw) ==
    CASE raw = "{\"text\": \"ab\"}"          -> Decoded("dict", TRUE, "str", <<"a", "b">>)
      [] raw = "{\"id\": 7, \"text\": \"c\"}" -> Decoded("dict", TRUE, "str", <<"c">>)
      [] raw = "{\"id\": 7}"                 -> Decoded("dict", FALSE, "none", <<>>)
      [] raw = "{\"text\": 5}"               -> Decoded("dict", TRUE, "int", <<>>)
      [] raw = "[\"text\"]"                  -> Decoded("list", FALSE, "none", <<>>)
      [] OTHER                              -> DecodeError

\* j['text']: the error of the subscript, or "none"
Subscript_text(j) ==
    IF j.t # "dict" THEN "TypeError"
    ELSE IF ~j.has_text THEN "KeyError"
    ELSE "none"

\* on_data writing one message per line.
on_data_delimited(f, raw_data) ==
    LET j == json_loads(raw_data) IN
    IF j.error = "none" /\ Subscript_text(j) = "none" /\ j.text_t = "str"
    THEN [file |-> f \o j.text \o <<"\n">>, ret |-> "True", printed |-> ""]
    ELSE [file |-> f, ret |-> "True", printed |-> "error"]

\* on_data giving up on the stream at the first message it cannot write.
on_data_stops_on_error(f, raw_data) ==
    LET j == json_loads(raw_data) IN
    IF j.error = "none" /\ Subscript_text(j) = "none" /\ j.text_t = "str"
    THEN [file |-> f \o j.text, ret |-> "True", printed |-> ""]
    ELSE [file |-> f, ret |-> "False", printed |-> "error"]

\* on_data opening the file with mode 'w': every call starts it afresh.
on_data_truncates(f, raw_data) ==
    LET j == json_loads(raw_data) IN
    IF j.error = "none" /\ Subscript_text(j) = "none" /\ j.text_t = "str"
    THEN [file |-> j.text, ret |-> "True", printed |-> ""]
    ELSE [file |-> <<>>, ret |-> "True", printed |-> "error"]

\* StdOutListener.on_data, on the file's content f: the content afterwards,
\* the value returned and what was printed.
on_data(f, raw_data) ==
    LET j == json_loads(raw_data)
        e == IF j.error # "none" THEN j.error
             ELSE IF Subscript_text(j) # "none" THEN Subscript_text(j)
             ELSE IF j.text_t # "str" THEN "TypeError"
             ELSE "none"
    IN  IF e = "none"
        THEN [file |-> f \o j.text, ret |-> "True", printed |-> ""]
        ELSE IF Catches("BaseException", e)
        THEN [file |-> f, ret |-> "True", printed |-> e]
        ELSE [file |-> f, ret |-> "raised", printed |-> ""]

\* StdOutListener.on_error: prints the status code, returns None
on_error(status_code) == [ret |-> "None", printed |-> status_code]

\* The vendor's Stream ends the session when a callback returns False (and
\* only then: None keeps it going) or lets an exception escape.
KeepsGoing(ret) == ret \notin {"False", "raised"}

-----------------------------------------------------------------------------
(* GUI (main2.py) *)

\* setup_apis / api_iterator: api_cache
api_cache ==
    [code \in 0..7 |->
        CASE code = 0 -> "Facebook" [] code = 1 -> "Tumblr"
          [] code = 2 -> "Instagram" [] code = 3 -> "Twitter"
          [] code = 4 -> "Reddit" [] code = 5 -> "Youtube"
          [] code = 6 -> "Discord" [] code = 7 -> "Slack"]

\* Listbox.curselection(): the selected indices in ascending order
RECURSIVE Ascending(_)
Ascending(S) ==
    IF S = {} THEN <<>>
    ELSE LET m == CHOOSE x \in S : \A y \in S : x <= y
         IN  <<m>> \o Ascending(S \ {m})

\* api_iterator reading the Listbox indices as if they started at 1.
api_iterator_shifted(sel) ==
    LET codes == Ascending(sel) IN
    [k \in 1..Len(codes) |-> api_cache[(codes[k] + 1) % 8]]

\* GUI.api_iterator
api_iterator(sel) ==
    LET codes == Ascending(sel) IN [k \in 1..Len(codes) |-> api_cache[codes[k]]]

IsSpace(c) == c \in {" ", "\n", "\t"}

\* str.strip()
RECURSIVE LStrip(_)
LStrip(t) == IF t # <<>> /\ IsSpace(Head(t)) THEN LStrip(Tail(t)) ELSE t

RECURSIVE RStrip(_)
RStrip(t) ==
    IF t # <<>> /\ IsSpace(t[Len(t)]) THEN RStrip(SubSeq(t, 1, Len(t) - 1)) ELSE t

Strip(t) == RStrip(LStrip(t))

\* comment_area.insert(tkinter.INSERT, 'Enter your comment here')
Placeholder ==
    <<"E", "n", "t", "e", "r", " ", "y", "o", "u", "r", " ", "c", "o", "m", "m",
      "e", "n", "t", " ", "h", "e", "r", "e">>

\* text_box.get(1.0, END): the content and the widget's final newline
text_box_get(content) == content \o <<"\n">>

NoFile == "No file uploaded"

\* The for loop of post_text and post_pic over the selected apis, from the
\* k-th on.  st holds the vendor state, the Adapter and vendor calls made so
\* far, the outcome of the latest Adapter call and an exception that escaped it.
RECURSIVE ApiLoop(_, _, _, _, _, _, _)
ApiLoop(which, apis, k, st, text, url, o) ==
    IF k > Len(apis) \/ st.raised # "none" THEN st
    ELSE IF apis[k] = "Twitter"
    THEN LET r == IF which = "post_text" THEN Twitter_post_text(st.api, text, o)
                  ELSE Twitter_post_photo(st.api, url, text, o)
         IN  ApiLoop(which, apis, k + 1,
                     [api |-> r.api, calls |-> Append(st.calls, r.op),
                      vendor |-> st.vendor \o r.calls, latest |-> Outcome(r),
                      raised |-> r.raised],
                     text, url, o)
    ELSE ApiLoop(which, apis, k + 1, st, text, url, o)

\* The result of a GUI action: the status field, the Adapter and vendor calls
\* it made, the vendor state, the latest Adapter outcome and an exception that
\* escaped the callback.
GuiResult(status, st, escaped) ==
    [io_error |-> status, calls |-> st.calls, vendor |-> st.vendor, api |-> st.api,
     latest |-> st.latest, escaped |-> escaped]

\* Before the loop: nothing called yet.
LoopStart(a) ==
    [api |-> a, calls |-> <<>>, vendor |-> <<>>, latest |-> NoOutcome, raised |-> "none"]

\* post_text testing the text as the widget gives it, without strip().
GUI_post_text_unstripped(content, sel, a, o) ==
    LET text == text_box_get(content) IN
    IF text = <<>> THEN GuiResult("Error: no text found", LoopStart(a), "none")
    ELSE LET st == ApiLoop("post_text", api_iterator(sel), 1, LoopStart(a), text, "", o)
         IN  IF st.raised = "none" THEN GuiResult("", st, "none")
             ELSE IF Catches("Exception", st.raised)
             THEN GuiResult("An API failed to post text", st, "none")
             ELSE GuiResult("", st, st.raised)

\* GUI.post_text
GUI_post_text(content, sel, a, o) ==
    LET text == Strip(text_box_get(content)) IN
    IF text = <<>> THEN GuiResult("Error: no text found", LoopStart(a), "none")
    ELSE LET st == ApiLoop("post_text", api_iterator(sel), 1, LoopStart(a), text, "", o)
         IN  IF st.raised = "none" THEN GuiResult("", st, "none")
             ELSE IF Catches("Exception", st.raised)
             THEN GuiResult("An API failed to post text", st, "none")
             ELSE GuiResult("", st, st.raised)

\* GUI.post_pic
GUI_post_pic(content, url, sel, a, o) ==
    LET text == text_box_get(content) IN
    IF url = NoFile THEN GuiResult("Error: no file found", LoopStart(a), "none")
    ELSE LET st == ApiLoop("post_pic", api_iterator(sel), 1, LoopStart(a), text, url, o)
         IN  IF st.raised = "none" THEN GuiResult("", st, "none")
             ELSE IF Catches("Exception", st.raised)
             THEN GuiResult("An API failed to post a photo", st, "none")
             ELSE GuiResult("", st, st.raised)

-----------------------------------------------------------------------------
(* Initial states *)

\* Twitter.__init__: the authenticated identity and its timeline, newest
\* post first, as the vendor holds them.
ApiInit(timeline) ==
    [posts |-> timeline, nextId |-> Len(timeline) + 1,
     me |-> [id |-> 7, screen_name |-> "postr", description |-> "bio0"]]

InitialTimelines ==
    { <<>>, <<Post(1, 2, 1)>>, <<Post(2, 0, 3), Post(1, 2, 1)>> }

\* No post action in the latest step.
NoAction ==
    [action |-> "none", adapter |-> <<>>, vendor |-> <<>>, latest |-> NoOutcome,
     escaped |-> "none"]

\* GUI.__init__
GuiInit ==
    /\ text_box = Placeholder
    /\ filepath = NoFile
    /\ io_error = ""
    /\ curselection = {}
    /\ gui_calls = NoAction

\* The vendor's side of a session: how many well-formed and malformed
\* messages it delivered, and the text fields of the well-formed ones, one
\* after the other.
NothingReceived == [good |-> 0, bad |-> 0, texts |-> <<>>]

StreamInit(f) ==
    /\ session = "none"
    /\ caller = "idle"
    /\ file = f
    /\ file0 = f
    /\ received = NothingReceived
    /\ callback_ret = "none"

\* No call yet.  Beside the frame f, fl holds the cursor's side: the target's
\* list (seed), the items it yielded and the error it raised.
FollowersIdle ==
    fl = [f |-> [FollowersEnter EXCEPT !.pc = "idle"], seed |-> 1, yielded |-> 0,
          error |-> "none"]

-----------------------------------------------------------------------------
(* Adapter operations as steps *)

Texts == { <<>>, <<"a">> }
Urls == { "", "pic.jpg" }
PostIds == 1..MaxIds
Bios == { "bio0", "bio1" }
Seeds == { 1, 2 }

\* The step of an operation whose outcome is r.  The vendor stops accepting
\* posts once it has assigned MaxIds ids.
Commit(r) ==
    /\ r.api.nextId <= MaxIds + 1
    /\ api' = r.api
    /\ last' = Outcome(r)
    /\ UNCHANGED <<guiVars, streamVars, fl>>

PostText == \E text \in Texts, o \in Outcomes : Commit(Twitter_post_text(api, text, o))

PostVideo == \E url \in Urls, text \in Texts : Commit(Twitter_post_video(api, url, text))

PostPhoto ==
    \E url \in Urls, text \in Texts, o \in Outcomes :
        Commit(Twitter_post_photo(api, url, text, o))

RemovePost ==
    \E post_id \in PostIds, o \in Outcomes : Commit(Twitter_remove_post(api, post_id, o))

GetUserFollowers ==
    \E seed \in Seeds, K \in 0..MaxCursor, failAfter \in -1..MaxCursor, e \in VendorErrors :
        /\ failAfter <= K
        /\ Commit(Twitter_get_user_followers(api, seed, K, failAfter, e))

UpdateBio ==
    \E message \in Bios, o \in Outcomes : Commit(Twitter_update_bio(api, message, o))

UpdateName ==
    \E o \in Outcomes : Commit(Twitter_update_name(api, "n1", o))

Username == \E o \in Outcomes : Commit(Twitter_username(api, o))

Id == \E o \in Outcomes : Commit(Twitter_id(api, o))

Bio == \E o \in Outcomes : Commit(Twitter_bio(api, o))

GetUserLikes == Commit(Twitter_get_user_likes(api))

LastTweet == \E o1 \in Outcomes, o2 \in Outcomes : Commit(Twitter_last_tweet(api, o1, o2))

FavoritesOn ==
    \E tweet_id \in PostIds, o \in Outcomes : Commit(Twitter_favorites_on(api, tweet_id, o))

RetweetsOn ==
    \E tweet_id \in PostIds, o \in Outcomes : Commit(Twitter_retweets_on(api, tweet_id, o))

LatestFavorites ==
    \E o1 \in Outcomes, o2 \in Outcomes, o3 \in Outcomes :
        Commit(Twitter_latest_favorites(api, o1, o2, o3))

LatestRetweets ==
    \E o1 \in Outcomes, o2 \in Outcomes, o3 \in Outcomes :
        Commit(Twitter_latest_retweets(api, o1, o2, o3))

AdapterOp ==
    \/ PostText \/ PostVideo \/ PostPhoto \/ RemovePost \/ GetUserFollowers
    \/ UpdateBio \/ UpdateName \/ Username \/ Id \/ Bio \/ GetUserLikes
    \/ LastTweet \/ FavoritesOn \/ RetweetsOn \/ LatestFavorites \/ LatestRetweets

Init ==
    /\ api \in {ApiInit(t) : t \in InitialTimelines}
    /\ last = NoOutcome
    /\ GuiInit
    /\ StreamInit(<<>>)
    /\ FollowersIdle

Next == AdapterOp

Spec == Init /\ [][Next]_vars

-----------------------------------------------------------------------------
(* get_user_followers, one cursor item at a time *)

Running(pc) == pc = "loop"

FollowersCall ==
    /\ ~Running(fl.f.pc)
    /\ \E seed \in Seeds :
          fl' = [f |-> FollowersEnter, seed |-> seed, yielded |-> 0, error |-> "none"]
    /\ UNCHANGED <<api, last, guiVars, streamVars>>

\* The cursor yields its next item.
FollowersYield ==
    /\ Running(fl.f.pc)
    /\ fl.yielded < MaxK
    /\ fl' = [fl EXCEPT !.f = FollowersItem(@, FollowerAt(fl.seed, fl.yielded + 1)),
                        !.yielded = @ + 1]
    /\ UNCHANGED <<api, last, guiVars, streamVars>>

\* The cursor has no more items.
FollowersExhaust ==
    /\ Running(fl.f.pc)
    /\ fl' = [fl EXCEPT !.f = FollowersReturn(@)]
    /\ UNCHANGED <<api, last, guiVars, streamVars>>

\* The cursor raises while fetching the next item.
FollowersError ==
    /\ Running(fl.f.pc)
    /\ \E e \in VendorErrors : fl' = [fl EXCEPT !.f = FollowersRaise(@, e), !.error = e]
    /\ UNCHANGED <<api, last, guiVars, streamVars>>

NextFollowers == FollowersCall \/ FollowersYield \/ FollowersExhaust \/ FollowersError

InitFollowers ==
    /\ api = ApiInit(<<>>)
    /\ last = NoOutcome
    /\ GuiInit
    /\ StreamInit(<<>>)
    /\ FollowersIdle

SpecFollowers == InitFollowers /\ [][NextFollowers]_vars

-----------------------------------------------------------------------------
(* The stream session *)

StatusCodes == { "401", "420" }

\* Twitter.stream_tweets -> TwitterStreamer.stream_tweets: builds the
\* listener and blocks in stream.filter(track=hashtags).
StreamTweets ==
    /\ caller # "blocked"
    /\ Len(file) < MaxFile
    /\ session' = "listening"
    /\ caller' = "blocked"
    /\ file0' = file
    /\ received' = NothingReceived
    /\ callback_ret' = "none"
    /\ UNCHANGED <<api, last, guiVars, file, fl>>

\* The session after a callback returned ret.
AfterCallback(ret) ==
    /\ session' = IF KeepsGoing(ret) THEN "listening" ELSE "stopped"
    /\ caller' = IF KeepsGoing(ret) THEN "blocked" ELSE "returned"
    /\ callback_ret' = ret

\* A message is well-formed when it is a JSON object whose text field is a
\* string.
WellFormed(raw) ==
    raw \in { "{\"text\": \"ab\"}", "{\"id\": 7, \"text\": \"c\"}" }

TextField(raw) == IF raw = "{\"text\": \"ab\"}" THEN <<"a", "b">> ELSE <<"c">>

Sent(rcv, raw) ==
    IF WellFormed(raw)
    THEN [rcv EXCEPT !.good = @ + 1, !.texts = @ \o TextField(raw)]
    ELSE [rcv EXCEPT !.bad = @ + 1]

\* The vendor delivers a message to on_data.
Deliver ==
    /\ session = "listening"
    /\ received.good + received.bad < MaxMsgs
    /\ \E raw \in RawMessages :
          LET r == on_data(file, raw) IN
          /\ file' = r.file
          /\ received' = Sent(received, raw)
          /\ AfterCallback(r.ret)
    /\ UNCHANGED <<api, last, guiVars, file0, fl>>

\* The vendor answers with an error status: on_error.
ErrorStatus ==
    /\ session = "listening"
    /\ \E code \in StatusCodes : AfterCallback(on_error(code).ret)
    /\ UNCHANGED <<api, last, guiVars, file, file0, received, fl>>

\* The vendor connection drops: stream.filter ends.
ConnectionDrop ==
    /\ session = "listening"
    /\ session' = "stopped"
    /\ caller' = "returned"
    /\ UNCHANGED <<api, last, guiVars, file, file0, received, callback_ret, fl>>

NextStream == StreamTweets \/ Deliver \/ ErrorStatus \/ ConnectionDrop

InitStream ==
    /\ api = ApiInit(<<>>)
    /\ last = NoOutcome
    /\ GuiInit
    /\ StreamInit(<<>>)
    /\ FollowersIdle

SpecStream == InitStream /\ [][NextStream]_vars

\* Every outcome an Adapter operation can have on vendor state a.
AdapterOutcomes(a) ==
    LET O == Outcomes IN
    {Twitter_post_text(a, t, o) : t \in Texts, o \in O}
    \cup {Twitter_post_video(a, u, t) : u \in Urls, t \in Texts}
    \cup {Twitter_post_photo(a, "pic.jpg", t, o) : t \in Texts, o \in O}
    \cup {Twitter_remove_post(a, i, o) : i \in PostIds, o \in O}
    \cup {Twitter_get_user_followers(a, 1, K, -1, "TweepError") : K \in 0..MaxCursor}
    \cup {Twitter_get_user_followers(a, 1, MaxCursor, j, e) : j \in 0..MaxCursor, e \in VendorErrors}
    \cup {Twitter_update_bio(a, m, o) : m \in Bios, o \in O}
    \cup {Twitter_update_name(a, "n1", o) : o \in O}
    \cup {Twitter_username(a, o) : o \in O}
    \cup {Twitter_id(a, o) : o \in O}
    \cup {Twitter_bio(a, o) : o \in O}
    \cup {Twitter_get_user_likes(a)}
    \cup {Twitter_favorites_on(a, i, o) : i \in PostIds, o \in O}
    \cup {Twitter_retweets_on(a, i, o) : i \in PostIds, o \in O}
    \cup {Twitter_latest_favorites(a, o1, o2, o3) : o1 \in O, o2 \in O, o3 \in O}
    \cup {Twitter_latest_retweets(a, o1, o2, o3) : o1 \in O, o2 \in O, o3 \in O}

\* An Adapter operation run by another thread of the caller's, whatever the
\* session is doing.  Its outcome goes to that thread.
ConcurrentOp ==
    /\ \E r \in AdapterOutcomes(api) :
          /\ r.api.nextId <= MaxIds + 1
          /\ api' = r.api
    /\ UNCHANGED <<last, guiVars, streamVars, fl>>

NextSession == NextStream \/ ConcurrentOp

SpecSession == InitStream /\ [][NextSession]_vars

-----------------------------------------------------------------------------
(* The GUI's callbacks *)

Chars == { "a", " " }
Typed == UNION { [1..n -> Chars] : n \in 0..MaxText }
DialogResults == { "", "pic.jpg" }

\* The user edits the comment.
TypeText ==
    /\ \E t \in Typed : text_box' = t
    /\ gui_calls' = NoAction
    /\ UNCHANGED <<api, last, filepath, io_error, curselection, streamVars, fl>>

\* GUI.clear_comment
clear_comment ==
    /\ text_box' = Placeholder
    /\ gui_calls' = NoAction
    /\ UNCHANGED <<api, last, filepath, io_error, curselection, streamVars, fl>>

\* The user clicks an entry of api_box (selectmode=MULTIPLE).
Toggle ==
    /\ \E code \in DOMAIN api_cache :
          curselection' = IF code \in curselection THEN curselection \ {code}
                          ELSE curselection \cup {code}
    /\ gui_calls' = NoAction
    /\ UNCHANGED <<api, last, text_box, filepath, io_error, streamVars, fl>>

\* GUI.open_file_dialog: askopenfilename gives '' when cancelled
open_file_dialog ==
    /\ \E path \in DialogResults : filepath' = path
    /\ gui_calls' = NoAction
    /\ UNCHANGED <<api, last, text_box, io_error, curselection, streamVars, fl>>

\* GUI.clear_file
clear_file ==
    /\ filepath' = NoFile
    /\ gui_calls' = NoAction
    /\ UNCHANGED <<api, last, text_box, io_error, curselection, streamVars, fl>>

\* The step of a GUI action whose result is r.
GuiCommit(action, r) ==
    /\ r.api.nextId <= MaxIds + 1
    /\ io_error' = r.io_error
    /\ gui_calls' = [action |-> action, adapter |-> r.calls, vendor |-> r.vendor,
                     latest |-> r.latest, escaped |-> r.escaped]
    /\ api' = r.api
    /\ UNCHANGED <<last, text_box, filepath, curselection, streamVars, fl>>

ClickPostText ==
    \E o \in Outcomes :
        GuiCommit("post_text", GUI_post_text(text_box, curselection, api, o))

ClickPostPic ==
    \E o \in Outcomes :
        GuiCommit("post_pic", GUI_post_pic(text_box, filepath, curselection, api, o))

NextGUI ==
    \/ TypeText \/ clear_comment \/ Toggle \/ open_file_dialog \/ clear_file
    \/ ClickPostText \/ ClickPostPic

InitGUI ==
    /\ api = ApiInit(<<Post(2, 0, 3), Post(1, 2, 1)>>)
    /\ last = NoOutcome
    /\ GuiInit
    /\ StreamInit(<<>>)
    /\ FollowersIdle

SpecGUI == InitGUI /\ [][NextGUI]_vars

-----------------------------------------------------------------------------
(* Properties *)

\* The latest Adapter call of a GUI action was rejected by the vendor.
Rejected(latest) ==
    /\ latest.op \in {"post_text", "post_photo"}
    /\ latest.raised # "none" \/ ~latest.b

\* The text box holds no text: nothing, or white space only.
NoText == Strip(text_box_get(text_box)) = <<>>

\* C1: when the vendor rejects the post of a post_text (post_pic) action with
\* Twitter selected, io_error shows 'An API failed to post text' ('An API
\* failed to post a photo').
C1_RejectedPostShowsFailure ==
    /\ gui_calls.action = "post_text" /\ Rejected(gui_calls.latest)
          => io_error = "An API failed to post text"
    /\ gui_calls.action = "post_pic" /\ Rejected(gui_calls.latest)
          => io_error = "An API failed to post a photo"

C3_PausesAndOrder ==
    /\ fl.f.pc \in {"loop", "returned"} =>
          /\ fl.f.sleeps = fl.yielded \div 100
          /\ fl.f.slept = fl.f.sleeps
    /\ fl.f.pc = "returned" =>
          fl.f.ret = [k \in 1..fl.yielded |-> FollowerAt(fl.seed, k)]

\* A cursor of 200 items was read to its end.
C3_Witness ==
    /\ fl.f.pc = "returned"
    /\ fl.yielded = 200
    /\ fl.f.sleeps = 2
    /\ Len(fl.f.ret) = 200

\* C4 as stated: with no text in the text box, a post action (post_text or
\* post_pic) sets an error status and calls neither the Adapter nor the vendor.
C4_EmptyTextStopsEveryPostAction ==
    gui_calls.action \in {"post_text", "post_pic"} /\ NoText =>
        /\ io_error # ""
        /\ gui_calls.adapter = <<>>
        /\ gui_calls.vendor = <<>>

\* C4, amended: with no text in the text box, the post_text action sets
\* 'Error: no text found' and calls neither the Adapter nor the vendor,
\* whatever is selected.
C4_EmptyTextStopsPostText ==
    gui_calls.action = "post_text" /\ NoText =>
        /\ io_error = "Error: no text found"
        /\ gui_calls.adapter = <<>>
        /\ gui_calls.vendor = <<>>
        /\ gui_calls.escaped = "none"

\* post_text was clicked with only a blank in the box and Twitter selected.
C4_Witness ==
    /\ gui_calls.action = "post_text"
    /\ text_box = <<" ">>
    /\ 3 \in curselection
    /\ io_error = "Error: no text found"

\* C5: post_text makes exactly one vendor call, returns True if the vendor
\* accepted and False if it raised, and lets no exception out.
C5_PostTextNeverRaises ==
    /\ \A text \in Texts, o \in Outcomes :
          LET r == Twitter_post_text(api, text, o) IN
          /\ r.raised = "none"
          /\ r.kind = "bool"
          /\ r.b <=> (o = "ok")
          /\ r.calls = <<"update_status">>
    /\ last.op = "post_text" =>
          /\ last.raised = "none"
          /\ last.kind = "bool"
          /\ last.b <=> (last.printed = "")
          /\ last.calls = <<"update_status">>

\* post_text returned False for an interrupt raised by the vendor call.
C5_Witness ==
    /\ last.op = "post_text"
    /\ last.kind = "bool" /\ ~last.b
    /\ last.printed = "KeyboardInterrupt"

SwallowedAsFalse(r) == r.raised = "none" /\ r.kind = "bool" /\ ~r.b

\* C6: on a vendor error e, post_text, post_photo and remove_post return
\* False, and get_user_followers, username, id, bio, favorites_on,
\* retweets_on, latest_favorites and latest_retweets raise e itself.
C6_WritesSwallowReadsPropagate ==
    \A e \in VendorErrors :
        /\ \A text \in Texts : SwallowedAsFalse(Twitter_post_text(api, text, e))
        /\ \A url \in Urls, text \in Texts :
              SwallowedAsFalse(Twitter_post_photo(api, url, text, e))
        /\ \A post_id \in PostIds : SwallowedAsFalse(Twitter_remove_post(api, post_id, e))
        /\ \A seed \in Seeds, K \in 0..MaxCursor, j \in 0..MaxCursor :
              j <= K => Twitter_get_user_followers(api, seed, K, j, e).raised = e
        /\ Twitter_username(api, e).raised = e
        /\ Twitter_id(api, e).raised = e
        /\ Twitter_bio(api, e).raised = e
        /\ \A tweet_id \in PostIds :
              /\ Twitter_favorites_on(api, tweet_id, e).raised = e
              /\ Twitter_retweets_on(api, tweet_id, e).raised = e
        /\ \A o2 \in Outcomes, o3 \in Outcomes :
              /\ Twitter_latest_favorites(api, e, o2, o3).raised = e
              /\ Twitter_latest_retweets(api, e, o2, o3).raised = e
        /\ \A o3 \in Outcomes :
              /\ Twitter_latest_favorites(api, "ok", e, o3).raised = e
              /\ Twitter_latest_retweets(api, "ok", e, o3).raised = e
        /\ api.posts # <<>> =>
              /\ Twitter_latest_favorites(api, "ok", "ok", e).raised = e
              /\ Twitter_latest_retweets(api, "ok", "ok", e).raised = e

\* latest_retweets raised the interrupt of its third vendor call.
C6_Witness ==
    /\ last.op = "latest_retweets"
    /\ last.raised = "KeyboardInterrupt"
    /\ last.calls = <<"me", "user_timeline", "get_status">>

\* C7: a listening session keeps the caller of stream_tweets blocked, and a
\* step that ends it is a drop of the vendor connection: no message, no error
\* status and no Adapter operation ends it.
C7_NoProgrammaticStop ==
    /\ [](session = "listening" => caller = "blocked")
    /\ [][session = "listening" /\ session' # "listening" => ConnectionDrop]_vars

\* The session is still listening after malformed messages, an error status
\* and posts made meanwhile.
C7_Witness ==
    /\ session = "listening"
    /\ received.bad = 2
    /\ callback_ret = "None"
    /\ Len(api.posts) = 2

\* C8: post_video returns False for every url and text, in every state of
\* the vendor, calls the vendor never and leaves its state as it was.
C8_PostVideoAlwaysFalse ==
    /\ \A url \in Urls, text \in Texts :
          LET r == Twitter_post_video(api, url, text) IN
          /\ r.raised = "none"
          /\ r.kind = "bool" /\ ~r.b
          /\ r.calls = <<>>
          /\ r.api = api
    /\ last.op = "post_video" =>
          /\ last.raised = "none"
          /\ last.kind = "bool" /\ ~last.b
          /\ last.calls = <<>>

\* post_video was called with posts on the timeline.
C8_Witness ==
    /\ last.op = "post_video"
    /\ Len(api.posts) = 3

\* C9: once the cursor raised e, get_user_followers has raised e and has
\* returned nothing, however many items it had gathered.
C9_CursorErrorPropagates ==
    /\ fl.error # "none" =>
          /\ fl.f.pc = "raised"
          /\ fl.f.raised = fl.error
          /\ fl.f.ret = <<>>
          /\ Len(fl.f.my_followers) = fl.yielded
    /\ \A seed \in Seeds, K \in 0..MaxCursor, j \in 0..MaxCursor, e \in VendorErrors :
          j <= K =>
              LET r == Twitter_get_user_followers(api, seed, K, j, e) IN
              r.raised = e /\ r.kind = "none" /\ r.l = <<>>

\* The cursor raised after 150 items.
C9_Witness ==
    /\ fl.error = "TweepError"
    /\ fl.yielded = 150
    /\ fl.f.pc = "raised"

\* The most recent post of a timeline: the one with the greatest id.
MostRecent(posts) ==
    CHOOSE p \in {posts[k] : k \in 1..Len(posts)} :
        \A k \in 1..Len(posts) : posts[k].id <= p.id

\* C10: when no vendor call fails, latest_favorites and latest_retweets
\* return the favorite and retweet counts of the most recent post if there is
\* one and raise (IndexError) if there is none; whatever the vendor answers,
\* they leave the vendor state as it was.
C10_LatestCounters ==
    LET f == Twitter_latest_favorites(api, "ok", "ok", "ok")
        r == Twitter_latest_retweets(api, "ok", "ok", "ok")
    IN  /\ api.posts # <<>> =>
              /\ f.raised = "none" /\ f.kind = "int"
              /\ f.n = MostRecent(api.posts).favorite_count
              /\ r.raised = "none" /\ r.kind = "int"
              /\ r.n = MostRecent(api.posts).retweet_count
        /\ api.posts = <<>> =>
              /\ f.raised = "IndexError" /\ f.kind = "none"
              /\ r.raised = "IndexError" /\ r.kind = "none"
        /\ \A o1 \in Outcomes, o2 \in Outcomes, o3 \in Outcomes :
              /\ Twitter_latest_favorites(api, o1, o2, o3).api = api
              /\ Twitter_latest_retweets(api, o1, o2, o3).api = api
        /\ last.op \in {"latest_favorites", "latest_retweets"} /\ last.raised = "IndexError"
              => api.posts = <<>>

\* latest_retweets returned the count of the newer of two posts.
C10_Witness ==
    /\ last.op = "latest_retweets"
    /\ last.raised = "none"
    /\ Len(api.posts) = 2
    /\ last.n = 3
    /\ api.posts[2].retweet_count = 1

\* C11: with text in the box, the post_text action calls the Adapter's
\* post_text once if Twitter is among the selected platforms and not at all
\* otherwise; the other seven platforms cause no Adapter call, no vendor call
\* and no error status.
C11_OnlyTwitterIsCalled ==
    gui_calls.action = "post_text" /\ ~NoText =>
        /\ 3 \in curselection =>
              /\ gui_calls.adapter = <<"post_text">>
              /\ gui_calls.vendor = <<"update_status">>
        /\ 3 \notin curselection =>
              /\ gui_calls.adapter = <<>>
              /\ gui_calls.vendor = <<>>
              /\ io_error = ""
              /\ gui_calls.escaped = "none"

\* post_text was clicked with text in the box and all eight platforms selected.
C11_Witness ==
    /\ gui_calls.action = "post_text"
    /\ text_box = <<"a">>
    /\ curselection = 0..7
    /\ gui_calls.adapter = <<"post_text">>

\* A file is selected: the path is neither the initial label nor empty.
FileSelected == filepath \notin {NoFile, ""}

\* C12: the post_pic action calls the Adapter's post_photo only when a file
\* is selected; with none selected it sets 'Error: no file found' and calls
\* the Adapter not at all.
C12_PostPicNeedsFile ==
    gui_calls.action = "post_pic" =>
        /\ gui_calls.adapter # <<>> => FileSelected
        /\ ~FileSelected =>
              /\ io_error = "Error: no file found"
              /\ gui_calls.adapter = <<>>

IsPrefix(s, t) == Len(s) <= Len(t) /\ SubSeq(t, 1, Len(s)) = s

\* C13: every step leaves what the file held as the beginning of what it
\* holds afterwards, and the delivery of a malformed message leaves the file
\* as it was.
C13_AppendOnly ==
    [][/\ IsPrefix(file, file')
       /\ received'.bad = received.bad + 1 => file' = file]_vars

\* In a second session, on a file the first one wrote to, well-formed and
\* malformed messages were delivered.
C13_Witness ==
    /\ file0 # <<>>
    /\ received.good >= 1
    /\ received.bad >= 1
    /\ Len(file) > Len(file0)

=============================================================================
